---- MODULE Spec2Model ----
(***************************************************************************)
(* Sharp CV Rank (ranker.py): ingestion of uploaded CVs (plain files and   *)
(* zip archives), one evaluation per candidate, the ranked DataFrame and   *)
(* the e-mailed report.                                                    *)
(*                                                                         *)
(* Strings whose content the program inspects (file names) are kept as     *)
(* character sequences; strings of which only the length matters (the      *)
(* extracted text, an exception's message) are kept as their length.       *)
(***************************************************************************)
EXTENDS Integers, Sequences, FiniteSets, TLC

VARIABLES uploaded_files, pc, docs, results, replies, df, best, sent, smtp

vars == <<uploaded_files, pc, docs, results, replies, df, best, sent, smtp>>

--------------------------------------------------------------------------
(* Bounds of the model *)

\* uploads in one click, ingestion specification
MaxUploads == 2

\* uploads in one click, whole-pipeline specification
MaxBatch == 3

--------------------------------------------------------------------------
(* Program constants *)

\* text[:4000]
TextCap == 4000

\* len("Error reading ")
ErrPrefixLen == 14

\* len(": ")
ErrSepLen == 2

PDF == <<".", "p", "d", "f">>
DOCX == <<".", "d", "o", "c", "x">>
TXT == <<".", "t", "x", "t">>
ZIP == <<".", "z", "i", "p">>
SLASH == <<"/">>
MACOSX == <<"_", "_", "M", "A", "C", "O", "S", "X">>

--------------------------------------------------------------------------
(* Python str operations on file names.                                    *)
(* A name is [pad, tail]: `pad' copies of the letter "a" followed by the   *)
(* characters of `tail'.  The letter "a" occurs in none of the patterns    *)
(* the program looks for, so a match never reaches into the padding.       *)

UpperCase == <<"A", "B", "C", "D", "E", "F", "G", "H", "I", "J", "K", "L", "M",
               "N", "O", "P", "Q", "R", "S", "T", "U", "V", "W", "X", "Y", "Z">>
LowerCase == <<"a", "b", "c", "d", "e", "f", "g", "h", "i", "j", "k", "l", "m",
               "n", "o", "p", "q", "r", "s", "t", "u", "v", "w", "x", "y", "z">>

lower_char(c) ==
    IF \E i \in 1..Len(UpperCase) : UpperCase[i] = c
    THEN LowerCase[CHOOSE i \in 1..Len(UpperCase) : UpperCase[i] = c]
    ELSE c

\* str.lower()
lower(name) ==
    [pad |-> name.pad,
     tail |-> [i \in 1..Len(name.tail) |-> lower_char(name.tail[i])]]

\* str.endswith(suffix)
endswith(name, suffix) ==
    /\ Len(suffix) <= Len(name.tail)
    /\ SubSeq(name.tail, Len(name.tail) - Len(suffix) + 1, Len(name.tail)) = suffix

\* pattern in str
contains(name, pattern) ==
    \E i \in 1..(Len(name.tail) - Len(pattern) + 1) :
        SubSeq(name.tail, i, i + Len(pattern) - 1) = pattern

\* len(str)
len(name) == name.pad + Len(name.tail)

Min(a, b) == IF a <= b THEN a ELSE b

--------------------------------------------------------------------------
(* read_file_content *)

\* A file object is [kind, len, elen, members]:
\*   kind "doc"  - bytes the extractor chosen by the suffix reads: len characters
\*   kind "junk" - bytes on which pdfplumber / python-docx raise an exception
\*                 whose message has elen characters; decoded as text they
\*                 give len characters
\*   kind "zip"  - a zip archive holding members (to an extractor, junk)
\* A text is [err, len]: its length, and whether it is the "Error reading"
\* message.

read_file_content(file_obj, filename) ==
    LET fn == lower(filename) IN
    IF endswith(fn, PDF) \/ endswith(fn, DOCX)
    THEN IF file_obj.kind = "doc"
         THEN [err |-> FALSE, len |-> Min(file_obj.len, TextCap)]
         ELSE [err |-> TRUE,
               len |-> ErrPrefixLen + len(fn) + ErrSepLen + file_obj.elen]
    ELSE IF endswith(fn, TXT)
         THEN [err |-> FALSE, len |-> Min(file_obj.len, TextCap)]
         ELSE [err |-> FALSE, len |-> 0]

--------------------------------------------------------------------------
(* process_uploaded_files *)

\* filename.lower().endswith(('.pdf', '.docx', '.txt'))
supported_case_sensitive(filename) ==
    endswith(filename, PDF) \/ endswith(filename, DOCX) \/ endswith(filename, TXT)

supported(filename) ==
    LET fn == lower(filename) IN
    endswith(fn, PDF) \/ endswith(fn, DOCX) \/ endswith(fn, TXT)

\* "__MACOSX" in filename or filename.endswith("/")
skipped(filename) == contains(filename, MACOSX) \/ endswith(filename, SLASH)

\* The loop over z.namelist().  A member is [name, content, readable];
\* z.open(filename) / f.read() raise on a member that is not readable
\* (encrypted, unsupported compression, bad CRC), which leaves the loop
\* and the with block for the except branch of the upload.
RECURSIVE extract_members(_)
extract_members(members) ==
    IF members = <<>> THEN <<>>
    ELSE LET m == Head(members) IN
         IF skipped(m.name) THEN extract_members(Tail(members))
         ELSE IF supported(m.name)
              THEN IF m.readable
                   THEN <<[name |-> m.name,
                           text |-> read_file_content(m.content, m.name)]>>
                        \o extract_members(Tail(members))
                   ELSE <<>>
              ELSE extract_members(Tail(members))

\* a file that cannot be read is left out
process_upload_drop_failed(uploaded_file) ==
    IF endswith(lower(uploaded_file.name), ZIP)
    THEN IF uploaded_file.content.kind = "zip"
         THEN extract_members(uploaded_file.content.members)
         ELSE <<>>
    ELSE IF read_file_content(uploaded_file.content, uploaded_file.name).err
         THEN <<>>
         ELSE <<[name |-> uploaded_file.name,
                 text |-> read_file_content(uploaded_file.content, uploaded_file.name)]>>

\* One iteration of `for uploaded_file in uploaded_files'.
process_upload(uploaded_file) ==
    IF endswith(lower(uploaded_file.name), ZIP)
    THEN IF uploaded_file.content.kind = "zip"
         THEN extract_members(uploaded_file.content.members)
         ELSE <<>>
    ELSE <<[name |-> uploaded_file.name,
            text |-> read_file_content(uploaded_file.content, uploaded_file.name)]>>

\* processed_docs after the loop over the uploads
RECURSIVE processed_docs(_)
processed_docs(files) ==
    IF files = <<>> THEN <<>>
    ELSE process_upload(Head(files)) \o processed_docs(Tail(files))

\* The result is [raised, docs]: whether an exception leaves the function,
\* and the list it returns otherwise.

\* no try/except round the archive
process_uploaded_files_unguarded(files) ==
    [raised |-> \E i \in 1..Len(files) :
                   /\ endswith(lower(files[i].name), ZIP)
                   /\ files[i].content.kind # "zip",
     docs |-> processed_docs(files)]

process_uploaded_files(files) ==
    [raised |-> FALSE, docs |-> processed_docs(files)]

--------------------------------------------------------------------------
(* analyze_candidate *)

Keys == {"score", "summary", "pros", "cons", "q1", "a1", "q2", "a2", "q3", "a3",
         "open_q", "manager_blurb", "outreach_email", "blind_summary"}

\* dict.get(key, default)
get(a, key, default) == IF key \in DOMAIN a THEN a[key] ELSE default

\* the dict of the except branch
Fallback ==
    [k \in {"score", "summary", "q1", "a1", "manager_blurb", "outreach_email",
            "blind_summary"} |->
        IF k = "score" THEN 0 ELSE IF k = "summary" THEN "Error" ELSE ""]

\* A reply is what client.chat.completions.create and json.loads make of one
\* request: kind "json" with the parsed object in body, kind "transport" (the
\* call raises), kind "unparsable" (json.loads raises).
\* The result is [raised, value]: whether an exception leaves the function,
\* and the dict it returns otherwise.

\* no try/except round the call
analyze_candidate_unguarded(reply) ==
    [raised |-> reply.kind # "json",
     value |-> IF reply.kind = "json" THEN reply.body ELSE Fallback]

analyze_candidate(reply) ==
    [raised |-> FALSE,
     value |-> IF reply.kind = "json" THEN reply.body ELSE Fallback]

--------------------------------------------------------------------------
(* The "Rank Candidates" handler *)

\* results.append({...})
result_row(a, doc) ==
    [c \in {"Score", "Name", "Summary", "Strengths", "Red Flags", "Manager Blurb",
            "Outreach Email", "Blind Summary", "Q1", "A1", "Q2", "A2", "Q3", "A3",
            "Open Q"} |->
        CASE c = "Score" -> get(a, "score", 0)
          [] c = "Name" -> doc.name
          [] c = "Summary" -> get(a, "summary", "")
          [] c = "Strengths" -> get(a, "pros", "")
          [] c = "Red Flags" -> get(a, "cons", "")
          [] c = "Manager Blurb" -> get(a, "manager_blurb", "")
          [] c = "Outreach Email" -> get(a, "outreach_email", "")
          [] c = "Blind Summary" -> get(a, "blind_summary", "")
          [] c = "Q1" -> get(a, "q1", "")
          [] c = "A1" -> get(a, "a1", "")
          [] c = "Q2" -> get(a, "q2", "")
          [] c = "A2" -> get(a, "a2", "")
          [] c = "Q3" -> get(a, "q3", "")
          [] c = "A3" -> get(a, "a3", "")
          [] c = "Open Q" -> get(a, "open_q", "")]

\* a candidate whose evaluation gave no score is left out
append_result_skip_zero(rs, a, doc) ==
    IF get(a, "score", 0) = 0 THEN rs ELSE Append(rs, result_row(a, doc))

\* the body of the analysis loop after the call
append_result(rs, a, doc) == Append(rs, result_row(a, doc))

Orders(n) ==
    {p \in [1..n -> 1..n] : \A i, j \in 1..n : p[i] = p[j] => i = j}

\* A DataFrame is the sequence of its rows, each [index, row]: the index
\* label (the 0-based position in results) and the row's cells.
frame(rs, p) == [k \in 1..Len(rs) |-> [index |-> p[k] - 1, row |-> rs[p[k]]]]

\* ascending=True
sort_values_ascending(rs) ==
    {frame(rs, p) : p \in {q \in Orders(Len(rs)) :
        \A k \in 1..(Len(rs) - 1) : rs[q[k]]["Score"] <= rs[q[k + 1]]["Score"]}}

\* pd.DataFrame(results).sort_values(by="Score", ascending=False), on at
\* least one row.  kind is left at its default, "quicksort", which is not
\* stable: the order of rows of equal Score is the sort routine's choice.
sort_values(rs) ==
    {frame(rs, p) : p \in {q \in Orders(Len(rs)) :
        \A k \in 1..(Len(rs) - 1) : rs[q[k]]["Score"] >= rs[q[k + 1]]["Score"]}}

--------------------------------------------------------------------------
(* send_summary_email *)

\* outcome of the SMTP exchange: "ok", or what failed
SmtpOutcomes == {"ok", "connect", "login", "send"}

\* The result is [raised, ret, df]: whether an exception leaves the
\* function, its return value, and the caller's DataFrame afterwards.

\* except smtplib.SMTPAuthenticationError only
send_summary_email_narrow_except(frm, outcome) ==
    [raised |-> outcome \in {"connect", "send"},
     ret |-> outcome = "ok",
     df |-> frm]

send_summary_email(frm, outcome) ==
    [raised |-> FALSE, ret |-> outcome = "ok", df |-> frm]

--------------------------------------------------------------------------
(* Inputs *)

SeqsUpTo(S, n) == UNION {[1..k -> S] : k \in 0..n}

Name(pad, tail) == [pad |-> pad, tail |-> tail]

\* extractable bytes giving n characters of text
DocBytes(n) == [kind |-> "doc", len |-> n, elen |-> 0, members |-> <<>>]

\* bytes no extractor reads; the exception's message has e characters
JunkBytes(e) == [kind |-> "junk", len |-> 7, elen |-> e, members |-> <<>>]

ZipBytes(members) == [kind |-> "zip", len |-> 7, elen |-> 21, members |-> members]

Member(name, content, readable) ==
    [name |-> name, content |-> content, readable |-> readable]

Upload(name, content) == [name |-> name, content |-> content]

MemberPalette ==
    { Member(Name(0, <<"A">> \o PDF), DocBytes(10), TRUE),
      Member(Name(0, <<"B", ".", "D", "O", "C", "X">>), DocBytes(2 * TextCap), TRUE),
      Member(Name(TextCap, PDF), JunkBytes(21), TRUE),
      Member(Name(0, <<"E">> \o TXT), DocBytes(TextCap + 1), FALSE),
      Member(Name(0, MACOSX \o <<"/", "A">> \o PDF), DocBytes(10), TRUE),
      Member(Name(0, <<"d", "/">>), DocBytes(0), TRUE),
      Member(Name(0, <<"n">> \o ZIP), ZipBytes(<<>>), TRUE) }

\* three supported documents, one metadata entry, one directory entry
ScenarioArchive ==
    << Member(Name(0, <<"d", "/">>), DocBytes(0), TRUE),
       Member(Name(0, <<"d", "/", "A">> \o PDF), DocBytes(10), TRUE),
       Member(Name(0, MACOSX \o <<"/", "A">> \o PDF), DocBytes(10), TRUE),
       Member(Name(0, <<"d", "/", "B">> \o DOCX), DocBytes(2 * TextCap), TRUE),
       Member(Name(0, <<"d", "/", "C">> \o TXT), DocBytes(TextCap), TRUE) >>

\* members that reach z.open
OpenedPalette == {m \in MemberPalette : m.name.pad = 0 /\ supported(m.name) /\ ~skipped(m.name)}

\* the empty archive, every archive of one entry, every archive of two
\* entries that are opened, and the scenario's
Archives ==
    {<<>>} \cup {<<m>> : m \in MemberPalette}
           \cup {<<m, n>> : m, n \in OpenedPalette}
           \cup {ScenarioArchive}

IngestPalette ==
    { Upload(Name(0, <<"A">> \o PDF), DocBytes(10)),
      Upload(Name(0, <<"B">> \o DOCX), DocBytes(2 * TextCap)),
      Upload(Name(0, <<"C", ".", "P", "D", "F">>), JunkBytes(21)),
      Upload(Name(0, <<"T">> \o TXT), JunkBytes(21)),
      Upload(Name(0, <<"z">> \o ZIP), JunkBytes(21)) }
    \cup {Upload(Name(0, <<"z">> \o ZIP), ZipBytes(ms)) : ms \in Archives}
    \cup {Upload(Name(0, <<"Z", ".", "Z", "I", "P">>), ZipBytes(<<>>))}

IngestUploads == SeqsUpTo(IngestPalette, MaxUploads)

BatchPalette ==
    { Upload(Name(0, <<"A">> \o PDF), DocBytes(10)),
      Upload(Name(0, <<"B">> \o DOCX), DocBytes(2 * TextCap)),
      Upload(Name(0, <<"C">> \o PDF), JunkBytes(21)),
      Upload(Name(0, <<"z">> \o ZIP), JunkBytes(21)) }

\* batches of distinct uploads
BatchUploads ==
    {files \in SeqsUpTo(BatchPalette, MaxBatch) :
        \A i, j \in 1..Len(files) : files[i] = files[j] => i = j}

Scores == {45, 82}

Full(s) == [k \in Keys |-> IF k = "score" THEN s ELSE "text"]

Replies ==
    {[kind |-> "json", body |-> Full(s)] : s \in Scores}
    \cup { [kind |-> "json", body |-> [k \in {"pros"} |-> "text"]],
           [kind |-> "transport", body |-> <<>>],
           [kind |-> "unparsable", body |-> <<>>] }

--------------------------------------------------------------------------
(* The script *)

Idle(files) ==
    /\ uploaded_files = files
    /\ pc = "idle"
    /\ docs = <<>>
    /\ results = <<>>
    /\ replies = <<>>
    /\ df = <<>>
    /\ best = <<>>
    /\ sent = <<>>
    /\ smtp = <<>>

Init == \E files \in BatchUploads : Idle(files)

InitIngest == \E files \in IngestUploads : Idle(files)

\* if st.button("Rank Candidates"): ... up to the analysis loop
RankCandidates ==
    /\ pc = "idle"
    /\ \E jd_text \in {"", "JD"} :
          \/ /\ (jd_text = "" \/ uploaded_files = <<>>)
             /\ pc' = "missing"
             /\ UNCHANGED <<docs, results>>
          \/ /\ ~(jd_text = "" \/ uploaded_files = <<>>)
             /\ LET r == process_uploaded_files(uploaded_files)
                IN  IF r.raised
                    THEN pc' = "raised_in_ingest" /\ UNCHANGED <<docs, results>>
                    ELSE pc' = "analyze" /\ docs' = r.docs /\ results' = <<>>
    /\ UNCHANGED <<uploaded_files, replies, df, best, sent, smtp>>

\* one iteration of `for i, doc in enumerate(docs)'
AnalysisLoop ==
    /\ pc = "analyze"
    /\ Len(replies) < Len(docs)
    /\ \E reply \in Replies :
          LET doc == docs[Len(replies) + 1]
              a == analyze_candidate(reply)
          IN  /\ replies' = Append(replies, reply)
              /\ IF a.raised
                 THEN pc' = "raised_in_analysis" /\ UNCHANGED results
                 ELSE /\ results' = append_result(results, a.value, doc)
                      /\ UNCHANGED pc
    /\ UNCHANGED <<uploaded_files, docs, df, best, sent, smtp>>

\* the loop is over: df = ...sort_values(...); best = df.iloc[0]
FinalizeReport ==
    /\ pc = "analyze"
    /\ Len(replies) = Len(docs)
    /\ \/ /\ results = <<>>
          /\ pc' = "raised_in_sort"
          /\ UNCHANGED <<df, best>>
       \/ /\ results # <<>>
          /\ \E sorted \in sort_values(results) :
                /\ df' = sorted
                /\ best' = <<sorted[1]>>
          /\ pc' = "email"
    /\ UNCHANGED <<uploaded_files, docs, results, replies, sent, smtp>>

\* if email_recipient: if send_summary_email(...): st.toast(...)
EmailReport ==
    /\ pc = "email"
    /\ \E email_recipient \in {"", "judd@sharphuman.com"} :
          \/ /\ email_recipient = ""
             /\ pc' = "done"
             /\ UNCHANGED <<df, sent, smtp>>
          \/ /\ email_recipient # ""
             /\ \E outcome \in SmtpOutcomes :
                   LET r == send_summary_email(df, outcome)
                   IN  /\ smtp' = <<outcome>>
                       /\ df' = r.df
                       /\ IF r.raised
                          THEN pc' = "raised_in_email" /\ UNCHANGED sent
                          ELSE pc' = "done" /\ sent' = <<r.ret>>
    /\ UNCHANGED <<uploaded_files, docs, results, replies, best>>

Next == RankCandidates \/ AnalysisLoop \/ FinalizeReport \/ EmailReport

Spec == Init /\ [][Next]_vars

NextIngest == RankCandidates

SpecIngest == InitIngest /\ [][NextIngest]_vars

--------------------------------------------------------------------------
(* Properties *)

\* process_uploaded_files has returned
Ingested == pc \notin {"idle", "missing", "raised_in_ingest"}

\* the ranked DataFrame has been built
Ranked == pc \in {"email", "done", "raised_in_email"}

Score(k) == df[k].row["Score"]

\* what the evaluation of document i handed to the loop
Evaluated(i) ==
    IF replies[i].kind = "json" THEN get(replies[i].body, "score", 0) ELSE 0

ZipNamed(u) == endswith(lower(u.name), ZIP)

\* C1: a batch of N >= 1 documents always gets its ranked report, and the
\* report has exactly N rows: for each submitted document exactly one row,
\* carrying that document's name, whatever each evaluation's outcome was.
C1_OneRowPerDocument ==
    /\ (Ingested /\ docs # <<>>) => pc \notin {"raised_in_analysis", "raised_in_sort"}
    /\ Ranked =>
          /\ Len(df) = Len(docs)
          /\ \A i \in 1..Len(docs) :
                /\ Cardinality({k \in 1..Len(df) : df[k].index = i - 1}) = 1
                /\ \A k \in 1..Len(df) :
                      df[k].index = i - 1 => df[k].row["Name"] = docs[i].name

C1_Witness ==
    /\ Ranked
    /\ Len(docs) = 3
    /\ {replies[i].kind : i \in 1..Len(replies)} = {"json", "transport", "unparsable"}
    /\ \E i \in 1..Len(replies) :
          replies[i].kind = "json" /\ "score" \notin DOMAIN replies[i].body

\* C2: rows of equal score stand in the order in which their documents
\* were submitted, so that the report is the stable descending sort of the
\* results by score.
C2_StableOrder ==
    Ranked =>
       \A i, j \in 1..Len(df) :
          (i < j /\ Score(i) = Score(j)) => df[i].index < df[j].index

\* C3: scores do not increase from one position of the report to the next.
C3_NonIncreasing ==
    Ranked => \A k \in 1..(Len(df) - 1) : Score(k) >= Score(k + 1)

C3_Witness ==
    /\ Ranked
    /\ Len(df) = 3
    /\ results[1]["Score"] < results[2]["Score"]
    /\ results[2]["Score"] < results[3]["Score"]

\* C4: the text of every document process_uploaded_files returns has at
\* most TextCap characters.
C4_TextWithinCap ==
    Ingested => \A i \in 1..Len(docs) : docs[i].text.len <= TextCap

\* C5: a click whose ingestion yields no document completes without an
\* exception, with an empty report and no best candidate.
C5_EmptyBatchCompletes ==
    (Ingested /\ docs = <<>>) =>
       /\ pc \notin {"raised_in_analysis", "raised_in_sort", "raised_in_email"}
       /\ df = <<>>
       /\ best = <<>>

\* C6: analyze_candidate never raises; a failed call or an unparsable
\* response gives the row score 0 and summary "Error"; every document
\* evaluated so far has its row, built from its own reply alone, and the
\* loop ends with a row for every document.
C6_EvaluationNeverRaises ==
    /\ pc # "raised_in_analysis"
    /\ Len(results) = Len(replies)
    /\ \A k \in 1..Len(results) :
          /\ results[k]["Name"] = docs[k].name
          /\ results[k]["Score"] = Evaluated(k)
          /\ replies[k].kind # "json" =>
                results[k]["Score"] = 0 /\ results[k]["Summary"] = "Error"
          /\ replies[k].kind = "json" =>
                results[k]["Summary"] = get(replies[k].body, "summary", "")
    /\ Ranked => Len(results) = Len(docs)

C6_Witness ==
    /\ Ranked
    /\ Len(docs) = 3
    /\ replies[1].kind = "unparsable"
    /\ replies[2].kind = "json"
    /\ replies[3].kind = "transport"
    /\ results[2]["Score"] = 82
    /\ results[1]["Summary"] = "Error"

\* members that pass both filters of the loop over the archive
Qualifies(m) ==
    /\ ~endswith(m.name, SLASH)
    /\ ~contains(m.name, MACOSX)
    /\ \E suffix \in {PDF, DOCX, TXT} : endswith(lower(m.name), suffix)

\* the archive's bytes are no zip archive: zipfile.ZipFile raises
FailsToOpen(u) == ZipNamed(u) /\ u.content.kind # "zip"

\* the archive opens and a member the loop opens cannot be read
FailsReading(u) ==
    /\ ZipNamed(u)
    /\ u.content.kind = "zip"
    /\ \E i \in 1..Len(u.content.members) :
          Qualifies(u.content.members[i]) /\ ~u.content.members[i].readable

\* the members before the first one that cannot be read
ReadPrefix(members) ==
    IF \E i \in 1..Len(members) : Qualifies(members[i]) /\ ~members[i].readable
    THEN SubSeq(members, 1,
                (CHOOSE i \in 1..Len(members) :
                    /\ Qualifies(members[i]) /\ ~members[i].readable
                    /\ \A j \in 1..(i - 1) :
                          ~(Qualifies(members[j]) /\ ~members[j].readable)) - 1)
    ELSE members

Truncated(u) ==
    IF FailsReading(u)
    THEN [u EXCEPT !.content.members = ReadPrefix(u.content.members)]
    ELSE u

\* what the uploads contribute, each processed on its own
RECURSIVE Contributions(_)
Contributions(files) ==
    IF files = <<>> THEN <<>>
    ELSE process_upload(Head(files)) \o Contributions(Tail(files))

\* C7 as stated: an archive that fails, on opening or while it is read,
\* contributes nothing, and the other uploads contribute what they
\* contribute without it.
C7_FailedArchiveYieldsNothing ==
    Ingested =>
       docs = Contributions(SelectSeq(uploaded_files,
                               LAMBDA u : ~(FailsToOpen(u) \/ FailsReading(u))))

\* C7, amended: an archive that fails to open contributes nothing; an
\* archive that fails while a member is read contributes the documents of
\* the members before that one; no failure is raised and the other uploads
\* contribute what they contribute without the failing one.
C7_FailedArchiveIsLocal ==
    /\ pc # "raised_in_ingest"
    /\ Ingested =>
          docs = Contributions(
                    [i \in 1..Len(SelectSeq(uploaded_files, LAMBDA u : ~FailsToOpen(u))) |->
                        Truncated(SelectSeq(uploaded_files, LAMBDA u : ~FailsToOpen(u))[i])])

C7_Witness ==
    /\ Ingested
    /\ Len(uploaded_files) = 2
    /\ FailsToOpen(uploaded_files[1])
    /\ FailsReading(uploaded_files[2])
    /\ Len(docs) = 1
    /\ docs[1].name = uploaded_files[2].content.members[1].name

\* C8 as stated: a candidate whose extraction failed has score 0 and the
\* diagnostic summary, and stands after every candidate of positive score.
C8_ExtractionFailureScoresZero ==
    Ranked =>
       \A k \in 1..Len(df) :
          docs[df[k].index + 1].text.err =>
             /\ Score(k) = 0
             /\ df[k].row["Summary"] = "Error"
             /\ \A j \in 1..Len(df) : Score(j) > 0 => j < k

\* C8, amended: a candidate whose extraction failed is evaluated like any
\* other, on the error message as its text: it has its row in the report,
\* with the score its evaluation gave (0 and summary "Error" when the
\* evaluation failed), after every candidate of strictly higher score.  With
\* A evaluated to 82, B to 45 and C, whose extraction failed, to 0, the
\* report is A, B, C and the best candidate is A.
C8_ExtractionFailureIsRanked ==
    Ranked =>
       /\ \A u \in 1..Len(uploaded_files) :
             (~ZipNamed(uploaded_files[u])
                /\ read_file_content(uploaded_files[u].content, uploaded_files[u].name).err)
             => \E k \in 1..Len(df) :
                   /\ df[k].row["Name"] = uploaded_files[u].name
                   /\ docs[df[k].index + 1].text.err
       /\ \A k \in 1..Len(df) :
             docs[df[k].index + 1].text.err =>
                /\ Score(k) = Evaluated(df[k].index + 1)
                /\ replies[df[k].index + 1].kind # "json" =>
                      Score(k) = 0 /\ df[k].row["Summary"] = "Error"
                /\ \A j \in 1..Len(df) : Score(j) > Score(k) => j < k
       /\ ( /\ Len(docs) = 3
            /\ ~docs[1].text.err /\ ~docs[2].text.err /\ docs[3].text.err
            /\ Evaluated(1) = 82 /\ Evaluated(2) = 45 /\ Evaluated(3) = 0 )
          => /\ [k \in 1..3 |-> df[k].index] = <<0, 1, 2>>
             /\ [k \in 1..3 |-> Score(k)] = <<82, 45, 0>>
             /\ best = <<df[1]>>
             /\ best[1].row["Name"] = docs[1].name

C8_Witness ==
    /\ Ranked
    /\ Len(docs) = 3
    /\ ~docs[1].text.err /\ ~docs[2].text.err /\ docs[3].text.err
    /\ Evaluated(1) = 82 /\ Evaluated(2) = 45 /\ Evaluated(3) = 0
    /\ replies[3].kind = "json"
    /\ best[1].row["Name"] = Name(0, <<"A">> \o PDF)

\* C9: send_summary_email raises no transport failure and returns False on
\* one; the report computed before it is the same after it.
C9_EmailFailureIsReported ==
    [][pc = "email" =>
          /\ pc' = "done"
          /\ df' = df /\ results' = results /\ best' = best
          /\ (smtp' # <<>> /\ smtp' # <<"ok">>) => sent' = <<FALSE>>
          /\ smtp' = <<"ok">> => sent' = <<TRUE>>]_vars

C9_Witness ==
    /\ pc = "done"
    /\ smtp = <<"login">>
    /\ sent = <<FALSE>>
    /\ Len(df) = 3
    /\ best = <<df[1]>>

RECURSIVE QualifyingNames(_)
QualifyingNames(members) ==
    IF members = <<>> THEN <<>>
    ELSE (IF Qualifies(Head(members)) THEN <<Head(members).name>> ELSE <<>>)
         \o QualifyingNames(Tail(members))

\* the names of the documents expected of the uploads, an opened archive
\* being read to its end or, with `stop', to its first unreadable member
RECURSIVE ExpectedNames(_, _)
ExpectedNames(files, stop) ==
    IF files = <<>> THEN <<>>
    ELSE (IF ZipNamed(Head(files))
          THEN IF Head(files).content.kind = "zip"
               THEN QualifyingNames(IF stop
                                    THEN ReadPrefix(Head(files).content.members)
                                    ELSE Head(files).content.members)
               ELSE <<>>
          ELSE <<Head(files).name>>)
         \o ExpectedNames(Tail(files), stop)

\* C10 as stated: an archive that opens yields one document for each member
\* that is no directory, no metadata entry and has a supported suffix, named
\* by the member's path, and nothing else.
C10_OnePerSupportedMember ==
    Ingested =>
       [i \in 1..Len(docs) |-> docs[i].name] = ExpectedNames(uploaded_files, FALSE)

\* C10, amended: an archive that opens yields one document for each such
\* member, named by the member's path, as far as the members can be read: the
\* first such member that cannot be read ends the archive, and it and the
\* members after it yield nothing.  The archive of 3 supported documents, 1
\* metadata entry and 1 directory entry yields exactly 3 documents.
C10_OnePerReadableSupportedMember ==
    Ingested =>
       /\ [i \in 1..Len(docs) |-> docs[i].name] = ExpectedNames(uploaded_files, TRUE)
       /\ (Len(uploaded_files) = 1 /\ uploaded_files[1].content.members = ScenarioArchive
             /\ ZipNamed(uploaded_files[1]))
          => Len(docs) = 3

C10_Witness ==
    /\ Ingested
    /\ Len(uploaded_files) = 1
    /\ ZipNamed(uploaded_files[1])
    /\ uploaded_files[1].content.members = ScenarioArchive
    /\ [i \in 1..Len(docs) |-> docs[i].name] =
          <<ScenarioArchive[2].name, ScenarioArchive[4].name, ScenarioArchive[5].name>>

====
